---- MODULE Spec2Model ----
(***************************************************************************)
(* Model of src/script.py: create_project_structure(), the scaffolder that *)
(* makes five directories, touches thirteen files, chmods                  *)
(* scripts/deploy.sh to 0755 and prints a summary.                         *)
(*                                                                         *)
(* The filesystem is the program's only state.  It is modelled as a map    *)
(* from the paths the program can reach (the working directory, the        *)
(* manifest paths and their ancestors) to an entry with a kind, a          *)
(* permission mode, an owner, a content and an mtime flag.  The library    *)
(* calls of the script (Path.mkdir(parents=True, exist_ok=True),           *)
(* Path.touch(), os.chmod, print) are modelled by what CPython's pathlib   *)
(* and the POSIX system calls under them do, for an unprivileged user.     *)
(*                                                                         *)
(* A path is the sequence of its components, as pathlib parses it:         *)
(* Path('.github/workflows') is <<".github", "workflows">>, the working    *)
(* directory is <<>>.  Modes are integers: 0o755 = 493, 0o777 = 511,       *)
(* 0o666 = 438, 0o644 = 420, 0o555 = 365, 0o022 = 18, 0o077 = 63.          *)
(*                                                                         *)
(* Environment: the umask is 022 or 077 (it leaves the owner's bits        *)
(* alone); a path of another owner is reached with the "others" bits; the  *)
(* mtime of a path is kept as one flag, "modified by the current run".     *)
(***************************************************************************)
EXTENDS Integers, Sequences, FiniteSets, TLC

VARIABLES
    fs,      \* the filesystem: path -> entry
    umask,   \* the process's file mode creation mask
    pc,      \* position of the run: a stage of NextStage, "done" or "failed"
    i,       \* index of the loop of the current stage (1-based)
    out,     \* standard output of the current run, a sequence of lines
    err,     \* exception class that ended the run, "none" while there is none
    log,     \* history: the library calls the current run has made, in order
    fs0,     \* history: the filesystem as the current run found it
    prev     \* history: how the run before this one ended and what it printed
             \* (ran = FALSE: there was none); it left the filesystem fs0

vars == <<fs, umask, pc, i, out, err, log, fs0, prev>>

(***************************************************************************)
(* Bound of the model: how many paths exist, with arbitrary attributes,    *)
(* before the first run (their missing ancestors exist as plain            *)
(* directories).                                                           *)
(***************************************************************************)
MaxPre == 1

(***************************************************************************)
(* The manifest                                                            *)
(***************************************************************************)
directories ==
    << <<"api">>, <<"worker">>, <<"k8s">>, <<"scripts">>,
       <<".github", "workflows">> >>

files_to_create ==
    << <<"api", "Dockerfile">>,
       <<"worker", "Dockerfile">>,
       <<"k8s", "01-namespace-config.yaml">>,
       <<"k8s", "02-mongodb.yaml">>,
       <<"k8s", "03-api-service.yaml">>,
       <<"k8s", "04-keda-scaledjob.yaml">>,
       <<"k8s", "05-prometheus.yaml">>,
       <<"k8s", "06-grafana.yaml">>,
       <<".github", "workflows", "ci-cd.yml">>,
       <<"scripts", "deploy.sh">>,
       <<"env.example">>,
       <<"docker-compose.dev.yml">>,
       <<"Makefile">> >>

deploy_sh == <<"scripts", "deploy.sh">>

DeployMode == 493      \* 0o755, the mode of os.chmod
MkdirMode == 511       \* 0o777, the default mode of Path.mkdir
TouchMode == 438       \* 0o666, the default mode of Path.touch

Range(s) == {s[k] : k \in 1..Len(s)}
DirectoryList == Range(directories)
FileList == Range(files_to_create)

\* Path.parent: the path without its last component; the parent of '.' is '.'
Parent(p) == IF p = <<>> THEN <<>> ELSE SubSeq(p, 1, Len(p) - 1)

RECURSIVE Ancestors(_)
\* the proper ancestors of p, the working directory included
Ancestors(p) == IF p = <<>> THEN {} ELSE {Parent(p)} \cup Ancestors(Parent(p))

cwd == <<>>
\* every path a call of the run can name or walk through
Nodes == UNION {{p} \cup Ancestors(p) : p \in DirectoryList \cup FileList}

RECURSIVE PathStr(_)
\* str(path): the components joined by "/"
PathStr(p) ==
    IF Len(p) = 0 THEN "."
    ELSE IF Len(p) = 1 THEN p[1]
    ELSE PathStr(Parent(p)) \o "/" \o p[Len(p)]

(***************************************************************************)
(* Permission bits                                                         *)
(***************************************************************************)
RECURSIVE BitAnd(_, _)
BitAnd(a, b) ==
    IF a = 0 \/ b = 0 THEN 0
    ELSE (a % 2) * (b % 2) + 2 * BitAnd(a \div 2, b \div 2)

\* mode & ~umask, on the nine permission bits
ApplyUmask(mode, um) == BitAnd(mode, 511 - (um % 512))

\* the rwx digit that applies to the calling user (groups are not modelled:
\* a path of another owner is accessed with the "others" bits)
AccessBits(e) == IF e.owner = "me" THEN (e.mode \div 64) % 8 ELSE e.mode % 8
CanW(e) == (AccessBits(e) \div 2) % 2 = 1
CanX(e) == AccessBits(e) % 2 = 1
HasExecBit(mode) == BitAnd(mode, 73) # 0      \* 0o111

Absent == [kind |-> "absent", mode |-> 0, owner |-> "me", content |-> "", fresh |-> FALSE]
NewDir(um) ==
    [kind |-> "dir", mode |-> ApplyUmask(MkdirMode, um), owner |-> "me",
     content |-> "", fresh |-> TRUE]
NewFile(um) ==
    [kind |-> "file", mode |-> ApplyUmask(TouchMode, um), owner |-> "me",
     content |-> "", fresh |-> TRUE]

OK == "OK"
Result(e, f) == [err |-> e, fs |-> f]

\* the exception class CPython raises for an errno (all subclasses of OSError)
ExcClass(e) ==
    CASE e = "EEXIST" -> "FileExistsError"
      [] e = "ENOENT" -> "FileNotFoundError"
      [] e = "ENOTDIR" -> "NotADirectoryError"
      [] e = "EISDIR" -> "IsADirectoryError"
      [] e = "EACCES" -> "PermissionError"
      [] e = "EPERM" -> "PermissionError"
      [] OTHER -> "OSError"
OSErrorClasses ==
    {"FileExistsError", "FileNotFoundError", "NotADirectoryError",
     "IsADirectoryError", "PermissionError", "OSError"}

(***************************************************************************)
(* System calls                                                            *)
(***************************************************************************)
RECURSIVE WalkErr(_, _)
\* path resolution through directory d: OK when d and all its ancestors are
\* directories the user may search
WalkErr(f, d) ==
    IF d = cwd THEN (IF CanX(f[d]) THEN OK ELSE "EACCES")
    ELSE LET e == WalkErr(f, Parent(d)) IN
         IF e # OK THEN e
         ELSE IF f[d].kind = "absent" THEN "ENOENT"
         ELSE IF f[d].kind # "dir" THEN "ENOTDIR"
         ELSE IF ~CanX(f[d]) THEN "EACCES"
         ELSE OK

\* creating an entry of a directory updates the directory's mtime
Link(f, p, e) ==
    [f EXCEPT ![p] = e, ![Parent(p)] = [f[Parent(p)] EXCEPT !.fresh = TRUE]]

\* mkdir(2)
os_mkdir(f, p, um) ==
    IF p = cwd THEN Result("EEXIST", f)
    ELSE LET e == WalkErr(f, Parent(p)) IN
         IF e # OK THEN Result(e, f)
         ELSE IF f[p].kind # "absent" THEN Result("EEXIST", f)
         ELSE IF ~CanW(f[Parent(p)]) THEN Result("EACCES", f)
         ELSE Result(OK, Link(f, p, NewDir(um)))

\* Path.is_dir(): stat(2), with ENOENT and ENOTDIR read as False.  A search
\* permission failure also ends the caller with a PermissionError, so it is
\* read as False here (the caller then re-raises its own PermissionError).
is_dir(f, p) == WalkErr(f, Parent(p)) = OK /\ f[p].kind = "dir"

\* utime(path, None): set mtime to now; allowed to the owner and to whoever
\* may write the file
os_utime(f, p) ==
    LET e == WalkErr(f, Parent(p)) IN
    IF e # OK THEN Result(e, f)
    ELSE IF f[p].kind = "absent" THEN Result("ENOENT", f)
    ELSE IF f[p].owner = "me" \/ CanW(f[p])
         THEN Result(OK, [f EXCEPT ![p].fresh = TRUE])
    ELSE Result("EACCES", f)

\* open(path, O_CREAT | O_WRONLY [| O_EXCL], mode) followed by close: no O_TRUNC
os_open_creat(f, p, um, excl) ==
    LET e == WalkErr(f, Parent(p)) IN
    IF e # OK THEN Result(e, f)
    ELSE IF excl /\ f[p].kind # "absent" THEN Result("EEXIST", f)
    ELSE IF f[p].kind = "dir" THEN Result("EISDIR", f)
    ELSE IF f[p].kind = "file"
         THEN (IF CanW(f[p]) THEN Result(OK, f) ELSE Result("EACCES", f))
    ELSE IF ~CanW(f[Parent(p)]) THEN Result("EACCES", f)
    ELSE Result(OK, Link(f, p, NewFile(um)))

\* chmod(2): allowed to the owner only
os_chmod(f, p, mode) ==
    LET e == WalkErr(f, Parent(p)) IN
    IF e # OK THEN Result(e, f)
    ELSE IF f[p].kind = "absent" THEN Result("ENOENT", f)
    ELSE IF f[p].owner # "me" THEN Result("EPERM", f)
    ELSE Result(OK, [f EXCEPT ![p].mode = mode])

(***************************************************************************)
(* pathlib                                                                 *)
(***************************************************************************)
RECURSIVE Path_mkdir(_, _, _, _, _)
\* Path(p).mkdir(parents=parents, exist_ok=exist_ok)
Path_mkdir(f, p, um, parents, exist_ok) ==
    LET r == os_mkdir(f, p, um) IN
    IF r.err = OK THEN r
    ELSE IF r.err = "ENOENT"
         THEN IF ~parents \/ Parent(p) = p THEN r
              ELSE LET rp == Path_mkdir(f, Parent(p), um, TRUE, TRUE) IN
                   IF rp.err # OK THEN rp
                   ELSE Path_mkdir(rp.fs, p, um, FALSE, exist_ok)
    ELSE IF exist_ok /\ is_dir(f, p) THEN Result(OK, f)
    ELSE r

\* Path(p).touch(exist_ok=exist_ok): bump the mtime if that works, else
\* create without truncating
Path_touch(f, p, um, exist_ok) ==
    LET u == os_utime(f, p) IN
    IF exist_ok /\ u.err = OK THEN u
    ELSE os_open_creat(f, p, um, ~exist_ok)

(***************************************************************************)
(* The calls of the script                                                 *)
(***************************************************************************)
\* variant: Path(directory).mkdir(exist_ok=True), the parents=True forgotten
EnsureDirectoryNoParents(f, p, um) == Path_mkdir(f, p, um, FALSE, TRUE)

\* variant: Path(directory).mkdir(parents=True), the exist_ok=True forgotten
EnsureDirectoryNoExistOk(f, p, um) == Path_mkdir(f, p, um, TRUE, FALSE)

\* variant: if not os.path.exists(directory): Path(directory).mkdir(parents=True)
EnsureDirectoryIfMissing(f, p, um) ==
    IF WalkErr(f, Parent(p)) = OK /\ f[p].kind # "absent" THEN Result(OK, f)
    ELSE Path_mkdir(f, p, um, TRUE, FALSE)

\* Path(directory).mkdir(parents=True, exist_ok=True)
EnsureDirectory(f, p, um) == Path_mkdir(f, p, um, TRUE, TRUE)

\* variant: open(file_path, 'w').close()
EnsureFileTruncating(f, p, um) ==
    LET r == os_open_creat(f, p, um, FALSE) IN
    IF r.err = OK THEN Result(OK, [r.fs EXCEPT ![p].content = "", ![p].fresh = TRUE])
    ELSE r

\* Path(file_path).touch()
EnsureFile(f, p, um) == Path_touch(f, p, um, TRUE)

\* variant: os.chmod('scripts/deploy.sh', 755), the 0o forgotten (755 = 0o1363)
MarkExecutableDecimal(f) == os_chmod(f, deploy_sh, 755 % 512)

\* os.chmod('scripts/deploy.sh', 0o755)
MarkExecutable(f) == os_chmod(f, deploy_sh, DeployMode)

(***************************************************************************)
(* The program                                                             *)
(***************************************************************************)
\* variant: the summary printed before the chmod
NextStageReportFirst(stage) ==
    CASE stage = "mkdir" -> "touch"
      [] stage = "touch" -> "report"
      [] stage = "report" -> "chmod"
      [] stage = "chmod" -> "done"

\* the straight sequence of create_project_structure: the directory loop, the
\* file loop, the chmod, the two prints, the return
FirstStage == "mkdir"
NextStage(stage) ==
    CASE stage = "mkdir" -> "touch"
      [] stage = "touch" -> "chmod"
      [] stage = "chmod" -> "report"
      [] stage = "report" -> "done"

\* variant: every call wrapped in try/except OSError: pass
ContinueSwallowing(stage, k, n, e) ==
    IF k < n THEN [pc |-> stage, i |-> k + 1, err |-> "none"]
    ELSE [pc |-> NextStage(stage), i |-> 1, err |-> "none"]

\* where the run goes after the k-th of n calls of a stage returned errno e:
\* on to the next iteration or stage, or out of the function with the
\* exception (nothing in the script catches it)
Continue(stage, k, n, e) ==
    IF e # OK THEN [pc |-> "failed", i |-> k, err |-> ExcClass(e)]
    ELSE IF k < n THEN [pc |-> stage, i |-> k + 1, err |-> "none"]
    ELSE [pc |-> NextStage(stage), i |-> 1, err |-> "none"]

Called(op, p, e) == [op |-> op, path |-> p, ok |-> (e = OK)]

\* variant: the file's name printed in place of its path
PrintCreatedName(o, p) == Append(o, "Created: " \o p[Len(p)])

\* print(f"Created: {file_path}")
PrintCreated(o, p) == Append(o, "Created: " \o PathStr(p))

\* variant: the two counts swapped
SummaryLineSwapped ==
    "Created " \o ToString(Len(directories)) \o " files and "
        \o ToString(Len(files_to_create)) \o " directories"

\* print(f"\nCreated {len(files_to_create)} files and {len(directories)} directories")
SummaryLine ==
    "Created " \o ToString(Len(files_to_create)) \o " files and "
        \o ToString(Len(directories)) \o " directories"
HintLine == "You can now copy the specific code content into each file."
PrintSummary(o) == o \o <<"", SummaryLine, HintLine>>

(***************************************************************************)
(* Initial states: the working directory, writable or read-only, holding   *)
(* at most MaxPre paths of the manifest (or of their ancestors) with       *)
(* attributes of Profiles; the ancestors such a path needs exist as plain  *)
(* directories of the user.                                                *)
(***************************************************************************)
Profiles ==
    { [kind |-> "file", mode |-> 420, owner |-> "me", content |-> "placeholder"],
      [kind |-> "file", mode |-> 493, owner |-> "me", content |-> "placeholder"],
      [kind |-> "file", mode |-> 438, owner |-> "other", content |-> "placeholder"],
      [kind |-> "file", mode |-> 420, owner |-> "other", content |-> "placeholder"],
      [kind |-> "dir", mode |-> 493, owner |-> "me", content |-> ""],
      [kind |-> "dir", mode |-> 365, owner |-> "me", content |-> ""],
      [kind |-> "dir", mode |-> 493, owner |-> "other", content |-> ""] }
CwdModes == {493, 365}
Umasks == {18, 63}

Entry(prof) ==
    [kind |-> prof.kind, mode |-> prof.mode, owner |-> prof.owner,
     content |-> prof.content, fresh |-> FALSE]
PlainDir == [kind |-> "dir", mode |-> 493, owner |-> "me", content |-> "", fresh |-> FALSE]

RECURSIVE SeedSets(_)
SeedSets(k) ==
    IF k = 0 THEN {{}}
    ELSE LET S == SeedSets(k - 1) IN
         S \cup {s \cup {n} : s \in S, n \in Nodes \ {cwd}}

\* no seed lies under a seed that is not a directory
Consistent(prof) ==
    \A n \in DOMAIN prof : \A a \in Ancestors(n) :
        a \in DOMAIN prof => prof[a].kind = "dir"

InitFs(prof, cwdMode) ==
    [n \in Nodes |->
        IF n = cwd THEN [PlainDir EXCEPT !.mode = cwdMode]
        ELSE IF n \in DOMAIN prof THEN Entry(prof[n])
        ELSE IF \E s \in DOMAIN prof : n \in Ancestors(s) THEN PlainDir
        ELSE Absent]

Aged(f) == [n \in Nodes |-> [f[n] EXCEPT !.fresh = FALSE]]

Init ==
    /\ \E S \in SeedSets(MaxPre) : \E prof \in [S -> Profiles] :
       \E cwdMode \in CwdModes :
          /\ Consistent(prof)
          /\ fs = InitFs(prof, cwdMode)
    /\ umask \in Umasks
    /\ pc = FirstStage
    /\ i = 1
    /\ out = <<>>
    /\ err = "none"
    /\ log = <<>>
    /\ fs0 = fs
    /\ prev = [ran |-> FALSE, ok |-> FALSE, out |-> <<>>]

Goto(c) == pc' = c.pc /\ i' = c.i /\ err' = c.err

\* for directory in directories: Path(directory).mkdir(parents=True, exist_ok=True)
MkdirStep ==
    /\ pc = "mkdir"
    /\ LET p == directories[i]
           r == EnsureDirectory(fs, p, umask)
       IN /\ fs' = r.fs
          /\ log' = Append(log, Called("mkdir", p, r.err))
          /\ Goto(Continue("mkdir", i, Len(directories), r.err))
    /\ UNCHANGED <<umask, out, fs0, prev>>

\* for file_path in files_to_create: Path(file_path).touch(); print(...)
TouchStep ==
    /\ pc = "touch"
    /\ LET p == files_to_create[i]
           r == EnsureFile(fs, p, umask)
       IN /\ fs' = r.fs
          /\ log' = Append(log, Called("touch", p, r.err))
          /\ out' = IF r.err = OK THEN PrintCreated(out, p) ELSE out
          /\ Goto(Continue("touch", i, Len(files_to_create), r.err))
    /\ UNCHANGED <<umask, fs0, prev>>

\* os.chmod('scripts/deploy.sh', 0o755)
ChmodStep ==
    /\ pc = "chmod"
    /\ LET r == MarkExecutable(fs)
       IN /\ fs' = r.fs
          /\ log' = Append(log, Called("chmod", deploy_sh, r.err))
          /\ Goto(Continue("chmod", 1, 1, r.err))
    /\ UNCHANGED <<umask, out, fs0, prev>>

\* the two prints that end the function
ReportStep ==
    /\ pc = "report"
    /\ out' = PrintSummary(out)
    /\ log' = Append(log, Called("report", cwd, OK))
    /\ Goto(Continue("report", 1, 1, OK))
    /\ UNCHANGED <<fs, umask, fs0, prev>>

\* if __name__ == "__main__": create_project_structure() -- the script is run
\* again, on the filesystem the run before it left
Invoke ==
    /\ pc \in {"done", "failed"}
    /\ prev' = [ran |-> TRUE, ok |-> (pc = "done"), out |-> out]
    /\ fs' = Aged(fs)
    /\ fs0' = Aged(fs)
    /\ pc' = FirstStage
    /\ i' = 1
    /\ out' = <<>>
    /\ err' = "none"
    /\ log' = <<>>
    /\ UNCHANGED umask

Next == MkdirStep \/ TouchStep \/ ChmodStep \/ ReportStep \/ Invoke

Spec == Init /\ [][Next]_vars

(***************************************************************************)
(* Vocabulary of the properties                                            *)
(***************************************************************************)
Finished == pc \in {"done", "failed"}
Others == Nodes \ {cwd}

\* the run started in an empty working directory the user may write
CleanStart ==
    /\ \A n \in Others : fs0[n].kind = "absent"
    /\ CanW(fs0[cwd]) /\ CanX(fs0[cwd])

\* the run started in an empty working directory the user may not write
ReadOnlyEmptyStart ==
    /\ \A n \in Others : fs0[n].kind = "absent"
    /\ ~CanW(fs0[cwd])

\* what the run has created so far
CreatedNow(kind) == {n \in Others : fs0[n].kind = "absent" /\ fs[n].kind = kind}

\* the run has changed nothing but modification times at n
SameButMtime(n) ==
    /\ fs[n].kind = fs0[n].kind
    /\ fs[n].mode = fs0[n].mode
    /\ fs[n].owner = fs0[n].owner
    /\ fs[n].content = fs0[n].content

\* the calls of the run that succeeded, by operation
Succeeded(op) == {k \in 1..Len(log) : log[k].op = op /\ log[k].ok}

\* the line before the static usage hint, when the output ends with the summary
SummaryOf(o) == IF Len(o) >= 2 THEN o[Len(o) - 1] ELSE "(none)"

mongodb_yaml == <<"k8s", "02-mongodb.yaml">>

\* the line `Created: <path>` of each path of FileList, written out
LineOf(p) ==
    CASE p = <<"api", "Dockerfile">> -> "Created: api/Dockerfile"
      [] p = <<"worker", "Dockerfile">> -> "Created: worker/Dockerfile"
      [] p = <<"k8s", "01-namespace-config.yaml">> -> "Created: k8s/01-namespace-config.yaml"
      [] p = <<"k8s", "02-mongodb.yaml">> -> "Created: k8s/02-mongodb.yaml"
      [] p = <<"k8s", "03-api-service.yaml">> -> "Created: k8s/03-api-service.yaml"
      [] p = <<"k8s", "04-keda-scaledjob.yaml">> -> "Created: k8s/04-keda-scaledjob.yaml"
      [] p = <<"k8s", "05-prometheus.yaml">> -> "Created: k8s/05-prometheus.yaml"
      [] p = <<"k8s", "06-grafana.yaml">> -> "Created: k8s/06-grafana.yaml"
      [] p = <<".github", "workflows", "ci-cd.yml">> -> "Created: .github/workflows/ci-cd.yml"
      [] p = <<"scripts", "deploy.sh">> -> "Created: scripts/deploy.sh"
      [] p = <<"env.example">> -> "Created: env.example"
      [] p = <<"docker-compose.dev.yml">> -> "Created: docker-compose.dev.yml"
      [] p = <<"Makefile">> -> "Created: Makefile"
      [] OTHER -> "(no such file)"

\* the paths of FileList whose `Created:` line is in the output, and how often
Reported == {p \in FileList : \E k \in 1..Len(out) : out[k] = LineOf(p)}
TimesReported(p) == Cardinality({k \in 1..Len(out) : out[k] = LineOf(p)})

(***************************************************************************)
(* C1.  A run that starts in an empty, writable working directory ends     *)
(* without error, and when it has ended every path of DirectoryList is a   *)
(* directory and each of the 13 paths of FileList is a regular file.       *)
(***************************************************************************)
C1_CleanRunCreatesAll ==
    (CleanStart /\ Finished) =>
        /\ pc = "done"
        /\ \A d \in DirectoryList : fs[d].kind = "dir"
        /\ \A p \in FileList : fs[p].kind = "file"
        /\ Cardinality(FileList) = 13
        /\ Cardinality(DirectoryList) = 5

C1_Witness ==
    /\ CleanStart /\ pc = "done"
    /\ fs[<<".github", "workflows">>].kind = "dir"
    /\ fs[<<"Makefile">>].kind = "file"

(***************************************************************************)
(* C2.  No truncation: a path of FileList that was a regular file when the *)
(* run started is a regular file with the same content at every point of   *)
(* the run, and after it.                                                  *)
(***************************************************************************)
C2_NoTruncation ==
    \A p \in FileList :
        fs0[p].kind = "file" =>
            fs[p].kind = "file" /\ fs[p].content = fs0[p].content

C2_Witness ==
    /\ ~prev.ran /\ pc = "done"
    /\ fs0[mongodb_yaml].kind = "file"
    /\ fs0[mongodb_yaml].content = "placeholder"
    /\ fs[mongodb_yaml].content = "placeholder"
    /\ \E k \in Succeeded("touch") : log[k].path = mongodb_yaml

(***************************************************************************)
(* C3.  Idempotence: a run started on what a successful run left raises no *)
(* error, never changes the kind, mode, owner or content of any path (so   *)
(* the set of directories and files stays what it was), and ends having    *)
(* printed the same summary line as the run before it.                     *)
(***************************************************************************)
C3_Idempotent ==
    (prev.ran /\ prev.ok) =>
        /\ pc # "failed"
        /\ \A n \in Nodes : SameButMtime(n)
        /\ pc = "done" =>
              /\ SummaryOf(out) = SummaryOf(prev.out)
              /\ SummaryOf(out) = "Created 13 files and 5 directories"

C3_Witness ==
    /\ prev.ran /\ prev.ok /\ pc = "done"
    /\ Cardinality(Succeeded("touch")) = 13
    /\ fs[mongodb_yaml].content = "placeholder"

(***************************************************************************)
(* C4.  After a run that completes, scripts/deploy.sh has mode 0755, and   *)
(* every other path of FileList has the default creation mode (0666        *)
(* without the umask's bits, so no execute bit) if the run created it and  *)
(* the mode it had if it existed before.                                   *)
(***************************************************************************)
C4_Modes ==
    pc = "done" =>
        /\ fs[deploy_sh].mode = 493
        /\ \A p \in FileList \ {deploy_sh} :
              /\ fs0[p].kind = "absent" =>
                    /\ ~HasExecBit(fs[p].mode)
                    /\ umask = 18 => fs[p].mode = 420
                    /\ umask = 63 => fs[p].mode = 384
              /\ fs0[p].kind # "absent" => fs[p].mode = fs0[p].mode

C4_Witness ==
    /\ pc = "done" /\ ~prev.ran /\ umask = 63
    /\ fs0[<<"Makefile">>].kind = "file" /\ fs[<<"Makefile">>].mode = 493
    /\ fs0[deploy_sh].kind = "absent" /\ fs[deploy_sh].mode = 493
    /\ fs[<<"env.example">>].mode = 384

(***************************************************************************)
(* C5.  As claimed: a completed run that started in an empty directory     *)
(* prints `Created 13 files and 5 directories`, and 13 and 5 are the       *)
(* numbers of files and of directories the run created.                    *)
(***************************************************************************)
C5_Original ==
    (CleanStart /\ pc = "done") =>
        /\ SummaryOf(out) = "Created 13 files and 5 directories"
        /\ Cardinality(CreatedNow("file")) = 13
        /\ Cardinality(CreatedNow("dir")) = 5

(***************************************************************************)
(* C5, amended.  A completed run that started in an empty directory prints *)
(* `Created 13 files and 5 directories`; it has created the 13 files of    *)
(* FileList and the 5 directories of DirectoryList, and one directory      *)
(* more, the intermediate parent .github, which the summary does not       *)
(* count: 6 directories in all.                                            *)
(***************************************************************************)
C5_SummaryCountsManifest ==
    (CleanStart /\ pc = "done") =>
        /\ SummaryOf(out) = "Created 13 files and 5 directories"
        /\ out[Len(out)] = HintLine
        /\ CreatedNow("file") = FileList
        /\ Cardinality(CreatedNow("file")) = 13
        /\ CreatedNow("dir") = DirectoryList \cup {<<".github">>}
        /\ Cardinality(CreatedNow("dir") \cap DirectoryList) = 5
        /\ Cardinality(CreatedNow("dir")) = 6

C5_Witness ==
    /\ CleanStart /\ pc = "done"
    /\ SummaryOf(out) = "Created 13 files and 5 directories"
    /\ fs[<<".github">>].kind = "dir"

(***************************************************************************)
(* C6.  As claimed: a failing call is the last call of its run, is made    *)
(* once, and leaves the run failed without a summary; and a run whose      *)
(* working directory is read-only fails at its first mkdir (its only       *)
(* call) and creates no file of FileList.                                  *)
(***************************************************************************)
FailureAborts ==
    /\ \A k \in 1..Len(log) : ~log[k].ok => (k = Len(log) /\ pc = "failed")
    /\ \A j, k \in 1..Len(log) :
          (log[j].op = log[k].op /\ log[j].path = log[k].path) => j = k
    /\ pc = "failed" =>
          /\ Len(log) >= 1 /\ ~log[Len(log)].ok
          /\ err \in OSErrorClasses
          /\ \A k \in 1..Len(out) : out[k] # SummaryLine /\ out[k] # HintLine
    /\ pc # "failed" => err = "none"

C6_Original ==
    /\ FailureAborts
    /\ ~CanW(fs0[cwd]) =>
          /\ pc # "done"
          /\ Len(log) <= 1
          /\ \A p \in FileList : fs[p].kind = fs0[p].kind

(***************************************************************************)
(* C6, amended.  A failing call is the last call of its run, is made once, *)
(* and leaves the run failed with an OSError-class exception and without a *)
(* summary; and a run whose working directory is read-only and empty       *)
(* fails at its first mkdir (its only call) and creates nothing.  (In a    *)
(* read-only directory that already holds api, the first mkdir succeeds    *)
(* and the second fails.)                                                  *)
(***************************************************************************)
C6_FailureAborts ==
    /\ FailureAborts
    /\ ReadOnlyEmptyStart =>
          /\ pc \in {"mkdir", "failed"}
          /\ Len(log) <= 1
          /\ pc = "failed" =>
                /\ log = <<[op |-> "mkdir", path |-> <<"api">>, ok |-> FALSE]>>
                /\ err = "PermissionError"
          /\ \A n \in Others : fs[n].kind = "absent"

C6_Witness ==
    /\ ReadOnlyEmptyStart /\ pc = "failed" /\ Len(log) = 1
    /\ err = "PermissionError"

(***************************************************************************)
(* C7.  As claimed: the paths with a `Created: <path>` line in the output  *)
(* are exactly the paths of FileList the run has created, each has one     *)
(* line, and a completed run's output ends with the summary lines.         *)
(***************************************************************************)
C7_Original ==
    /\ Reported = CreatedNow("file") \cap FileList
    /\ \A p \in Reported : TimesReported(p) = 1
    /\ pc = "done" => SubSeq(out, Len(out) - 2, Len(out)) = <<"", SummaryLine, HintLine>>

(***************************************************************************)
(* C7, amended.  The output of a run is one `Created: <path>` line for     *)
(* each path of FileList the run has touched without error, whether the    *)
(* touch created the file or found it there, in FileList order and each    *)
(* once; a completed run's output is these 13 lines followed by an empty   *)
(* line, `Created 13 files and 5 directories` and the usage hint, and no   *)
(* other run prints a summary.                                             *)
(***************************************************************************)
C7_OneLinePerTouchedFile ==
    LET n == Cardinality(Succeeded("touch"))
        lines == [k \in 1..n |-> LineOf(files_to_create[k])]
    IN /\ Reported = {log[k].path : k \in Succeeded("touch")}
       /\ \A p \in Reported : TimesReported(p) = 1
       /\ pc # "done" => out = lines
       /\ pc = "done" =>
             /\ n = 13
             /\ out = lines \o <<"", "Created 13 files and 5 directories",
                                 "You can now copy the specific code content into each file.">>

C7_Witness ==
    /\ pc = "done" /\ ~prev.ran
    /\ fs0[mongodb_yaml].kind = "file"
    /\ mongodb_yaml \in Reported
    /\ mongodb_yaml \notin CreatedNow("file")

(***************************************************************************)
(* C8.  A Path.mkdir of the directory loop whose path is already a         *)
(* directory returns without error and leaves the filesystem as it was;    *)
(* one whose path, or a component of it, is a regular file ends the run    *)
(* with an OSError-class exception (and creates nothing).                  *)
(***************************************************************************)
C8_EnsureDirectories ==
    [][pc = "mkdir" =>
          LET p == directories[i] IN
          /\ fs[p].kind = "dir" => (fs' = fs /\ pc' # "failed" /\ err' = "none")
          /\ (\E a \in ({p} \cup Ancestors(p)) \ {cwd} : fs[a].kind = "file") =>
                (pc' = "failed" /\ err' \in OSErrorClasses /\ fs' = fs)]_vars

C8_Witness ==
    /\ prev.ran /\ pc = "failed" /\ err = "NotADirectoryError"
    /\ fs0[<<".github">>].kind = "file"
    /\ fs0[<<"api">>].kind = "dir"
    /\ Len(log) = 5 /\ log[1].ok /\ log[1].path = <<"api">>
    /\ fs = fs0

(***************************************************************************)
(* C9.  The calls of a run are made in one order: the 5 mkdirs, the 13     *)
(* touches, the chmod, the summary.  So a file is touched only after every *)
(* mkdir has succeeded and while its parent is a directory, the chmod is   *)
(* made only after the 13 touches have succeeded, when scripts/deploy.sh   *)
(* exists, and the summary is printed only after the chmod has succeeded.  *)
(***************************************************************************)
CallOrder ==
    [k \in 1..5 |-> <<"mkdir", directories[k]>>]
        \o [k \in 1..13 |-> <<"touch", files_to_create[k]>>]
        \o << <<"chmod", deploy_sh>>, <<"report", cwd>> >>

C9_StrictOrder ==
    /\ Len(log) <= Len(CallOrder)
    /\ \A k \in 1..Len(log) : <<log[k].op, log[k].path>> = CallOrder[k]
    /\ \A k \in Succeeded("touch") \cup {k \in 1..Len(log) : log[k].op = "touch"} :
          Cardinality(Succeeded("mkdir")) = 5
    /\ pc = "touch" =>
          /\ \A d \in DirectoryList : fs[d].kind = "dir"
          /\ fs[Parent(files_to_create[i])].kind = "dir"
    /\ (pc = "chmod" \/ \E k \in 1..Len(log) : log[k].op = "chmod") =>
          /\ Cardinality(Succeeded("touch")) = 13
          /\ fs[deploy_sh].kind # "absent"
    /\ (\E k \in 1..Len(out) : out[k] = "Created 13 files and 5 directories") =>
          /\ Succeeded("chmod") # {}
          /\ fs[deploy_sh].mode = 493

C9_Witness ==
    /\ pc = "done" /\ Len(log) = 20
    /\ log[18].op = "touch" /\ log[19].op = "chmod" /\ log[20].op = "report"
    /\ fs0[<<"scripts">>].kind = "dir"

(***************************************************************************)
(* C10.  As claimed: whatever the working directory held, a run that       *)
(* completes without error leaves every path of FileList a regular file.   *)
(***************************************************************************)
C10_CompletedRunLeavesFiles ==
    pc = "done" => \A p \in FileList : fs[p].kind = "file"

====
